---- MODULE Spec2Model ----
(***************************************************************************)
(* Model of savegame_reader/savegame.py: the Savegame class.               *)
(*                                                                         *)
(* Bytes are integers 0..255 and byte strings are sequences of them.  A    *)
(* Python str is the sequence of its code points, so that decoding,        *)
(* formatting (str(index)) and key concatenation are computed and not      *)
(* assumed.  A Python dict whose insertion order matters (a decoded        *)
(* record) is a sequence of <<key, value>> pairs; a dict whose order is    *)
(* never observed (the registries, the item store) is a function.          *)
(*                                                                         *)
(* The stream is read through a cursor.  The bytes an operation reads are  *)
(* drawn when it reads them: an operation is enabled for an input `inp`    *)
(* when it consumes exactly `inp`, or when it asks for more than `inp`     *)
(* holds, which is the stream ending there.                                *)
(***************************************************************************)
EXTENDS Integers, Sequences, FiniteSets, TLC

VARIABLES
    pc,          \* position of Savegame.read: "tag", "records", "tail", "done", "failed"
                 \* (and "call", "returned" for a single method applied to an argument)
    err,         \* message of the exception that ended read, "" when none
    pos,         \* bytes the cursor has consumed from the decompressed stream
    atEof,       \* the stream is known to have ended at pos
    tables,      \* self.tables: tag -> registry
    items,       \* self.items: tag -> (index string -> item)
    tag,         \* read's local `tag` (decoded)
    type,        \* read's local `type`
    chunkTables, \* read's local `tables`
    index,       \* read's local `index`
    recNo,       \* records of the current chunk read so far (observation only)
    noSchema,    \* tags of the chunks dispatched without an embedded schema (observation only)
    last,        \* what the last operation read and did (observation only)
    savegame_version, \* self.savegame_version, -1 for None
    arg          \* the argument of a method applied on its own

vars == <<pc, err, pos, atEof, tables, items, tag, type, chunkTables, index,
          recNo, noSchema, last, savegame_version, arg>>

-----------------------------------------------------------------------------
(* Bounds of the model.                                                    *)

\* Longest stream Savegame.read is followed over, in bytes.
MaxStream == 18
\* Longest embedded schema a stream carries, in bytes.
MaxStreamSchema == 8
\* Longest record payload a stream carries, in bytes.
MaxPayload == 3
\* Longest embedded schema drawn for read_all_tables on its own, in bytes.
MaxSchemaLen == 10
\* Most items in an SLXI payload drawn for read_slxi on its own.
MaxSlxiItems == 2

-----------------------------------------------------------------------------
(* Strings.                                                                *)

root == <<114, 111, 111, 116>>                       \* "root"
Dot == <<46>>                                        \* "."
SLXI == <<83, 76, 88, 73>>
GSDT == <<71, 83, 68, 84>>
AIPL == <<65, 73, 80, 76>>
PATS == <<80, 65, 84, 83>>
version_label == <<118, 101, 114, 115, 105, 111, 110, 95, 108, 97, 98, 101, 108>>

\* bytes.decode(): UTF-8.  Bytes below 0x80 decode to themselves.  Byte 0x80
\* to 0xBF is a continuation byte and 0xF8 to 0xFF is no UTF-8 byte at all:
\* neither can start a character.  The lead bytes 0xC0 to 0xF7 are not in any
\* input the model draws.
Utf8Ok(bytes) == \A k \in 1..Len(bytes) : bytes[k] < 128
Decode(bytes) == bytes

RECURSIVE Digits(_)
Digits(n) == IF n < 10 THEN <<48 + n>> ELSE Digits(n \div 10) \o <<48 + (n % 10)>>
\* str(n) of a Python int.
Str(n) == IF n < 0 THEN <<45>> \o Digits(-n) ELSE Digits(n)

-----------------------------------------------------------------------------
(* Dictionaries.                                                           *)

EmptyDict == [k \in {} |-> <<>>]
\* d[k] = v on a dict whose order is not observed.
Put(d, k, v) == [x \in (DOMAIN d) \cup {k} |-> IF x = k THEN v ELSE d[x]]

\* d[k] = v on an insertion-ordered dict: a key already present keeps its
\* place and takes the new value, a new key goes last.
OrdPut(d, k, v) ==
    IF \E n \in 1..Len(d) : d[n][1] = k
    THEN [n \in 1..Len(d) |-> IF d[n][1] = k THEN <<k, v>> ELSE d[n]]
    ELSE Append(d, <<k, v>>)
OrdKeys(d) == [n \in 1..Len(d) |-> d[n][1]]

\* Decoded values carry their Python type.
IntV(n) == [k |-> "int", v |-> n]
StrV(s) == [k |-> "str", v |-> s]
ListV(s) == [k |-> "list", v |-> s]
MapV(d) == [k |-> "map", v |-> d]

-----------------------------------------------------------------------------
(* External collaborators: enums.py and the primitive reader (binreader.py).*)

END == 0
I8 == 1
U8 == 2
I16 == 3
U16 == 4
I32 == 5
U32 == 6
I64 == 7
U64 == 8
STRINGID == 9
STRING_ == 10
STRUCT == 11
FIELD_TYPE_HAS_LENGTH_FIELD == 16
\* FieldType(n) raises ValueError for an n that is no member.
IsFieldType(n) == n \in END..STRUCT

\* Result of a read at offset i of the input: st is "ok", "eof" (the input
\* ended first) or "error" (an exception other than the stream ending).
Ok(val, n) == [st |-> "ok", val |-> val, n |-> n]
Eof == [st |-> "eof", val |-> 0, n |-> 0]

\* reader.gamma(): (value, encoded length).  One byte below 0x80 is the
\* value; a first byte 10xxxxxx carries 14 bits over two bytes, 110xxxxx 21
\* bits over three.
Gamma(inp, i) ==
    IF i >= Len(inp) THEN Eof
    ELSE LET b == inp[i + 1] IN
         IF b < 128 THEN Ok(b, 1)
         ELSE IF b < 192
              THEN IF i + 1 >= Len(inp) THEN Eof
                   ELSE Ok((b % 64) * 256 + inp[i + 2], 2)
              ELSE IF i + 2 >= Len(inp) THEN Eof
                   ELSE Ok(((b % 32) * 256 + inp[i + 2]) * 256 + inp[i + 3], 3)

\* struct.unpack(">b", ...): a byte as a signed 8-bit integer.
SignedByte(b) == IF b >= 128 THEN b - 256 ELSE b

-----------------------------------------------------------------------------
(* Schema parser: _read_table, _read_substruct, read_all_tables.           *)

\* What one field descriptor adds to `size` besides its type byte.
TableFieldSizeNoGamma(key_length, index_size) == key_length + 1
TableFieldSize(key_length, index_size) == key_length + index_size

TableResult(st, e, fields, size, i) ==
    [st |-> st, err |-> e, fields |-> fields, size |-> size, i |-> i]

\* The loop of _read_table from cursor offset i, with `fields` and `size`
\* as accumulated so far.  type & 0xf and type & 0x10 of the signed type byte
\* are its two's complement bits: % 16 and (\div 16) % 2 of the signed value.
RECURSIVE ReadTableLoop(_, _, _, _)
ReadTableLoop(inp, i, fields, size) ==
    IF i >= Len(inp) THEN TableResult("eof", "", fields, size, i)
    ELSE
    LET t == SignedByte(inp[i + 1])
        size1 == size + 1
    IN  IF t = 0 THEN TableResult("ok", "", fields, size1, i + 1)
        ELSE
        LET g == Gamma(inp, i + 1)
            key_length == g.val
            index_size == g.n
            j == i + 1 + index_size
        IN  IF g.st # "ok" \/ j + key_length > Len(inp)
            THEN TableResult("eof", "", fields, size1, i)
            ELSE
            LET key == SubSeq(inp, j + 1, j + key_length)
                is_list == (t \div FIELD_TYPE_HAS_LENGTH_FIELD) % 2 = 1
            IN  IF ~IsFieldType(t % 16)
                THEN TableResult("error", "ValueError", fields, size1, j + key_length)
                ELSE IF ~Utf8Ok(key)
                THEN TableResult("error", "UnicodeDecodeError", fields, size1, j + key_length)
                ELSE ReadTableLoop(inp, j + key_length,
                                   Append(fields, <<t % 16, is_list, Decode(key)>>),
                                   size1 + TableFieldSize(key_length, index_size))

ReadTable(inp, i) == ReadTableLoop(inp, i, <<>>, 0)

SubResult(st, e, tbls, size, i) ==
    [st |-> st, err |-> e, tables |-> tbls, size |-> size, i |-> i]

\* size += r.size, once the rest of the loop has run.
AddSize(size, r) == IF r.st # "ok" THEN r ELSE [r EXCEPT !.size = size + r.size]

RECURSIVE ReadSubstruct(_, _, _, _, _)
RECURSIVE SubstructTable(_, _, _, _, _)
RECURSIVE SubstructNested(_, _, _, _, _)

\* _read_substruct(reader, tables, key), over the fields of tables[key] not
\* yet visited.  The for loop iterates the list object it was given, which
\* nothing modifies, so the remaining fields are passed along.
ReadSubstruct(inp, i, tbls, key, fields) ==
    IF fields = <<>> THEN SubResult("ok", "", tbls, 0, i)
    ELSE IF Head(fields)[1] # STRUCT THEN ReadSubstruct(inp, i, tbls, key, Tail(fields))
    ELSE SubstructTable(inp, tbls, key, fields, ReadTable(inp, i))

\* ... with t what _read_table returned for the STRUCT field at hand:
\* tables[table_key] = t.fields, then the sub-tables of that table.
SubstructTable(inp, tbls, key, fields, t) ==
    IF t.st # "ok" THEN SubResult(t.st, t.err, tbls, 0, t.i)
    ELSE SubstructNested(inp, key, fields, t.size,
                         ReadSubstruct(inp, t.i,
                                       Put(tbls, key \o Dot \o Head(fields)[3], t.fields),
                                       key \o Dot \o Head(fields)[3], t.fields))

\* ... with s what the recursive call returned: the remaining fields.
SubstructNested(inp, key, fields, sub_size, s) ==
    IF s.st # "ok" THEN s
    ELSE AddSize(sub_size + s.size, ReadSubstruct(inp, s.i, s.tables, key, Tail(fields)))

\* read_all_tables, with t what _read_table returned for "root".
AllTablesRoot(inp, t) ==
    IF t.st # "ok" THEN SubResult(t.st, t.err, EmptyDict, 0, t.i)
    ELSE AddSize(t.size, ReadSubstruct(inp, t.i, Put(EmptyDict, root, t.fields), root, t.fields))

\* read_all_tables(tag, reader) from cursor offset i.
ReadAllTables(inp, i) == AllTablesRoot(inp, ReadTable(inp, i))

-----------------------------------------------------------------------------
(* External collaborator: the scalar readers of passthrough.py, over a     *)
(* byte span `data` from offset i.  A span too short for the value is an   *)
(* exception.                                                              *)

ValResult(st, e, val, i) == [st |-> st, err |-> e, val |-> val, i |-> i]

RECURSIVE BigEndian(_, _, _)
BigEndian(data, i, w) ==
    IF w = 0 THEN 0 ELSE BigEndian(data, i, w - 1) * 256 + data[i + w]

RECURSIVE Pow256(_)
Pow256(w) == IF w = 0 THEN 1 ELSE 256 * Pow256(w - 1)

\* read_uint8 ... read_int64: w bytes, big-endian.
ReadInt(data, i, w, signed) ==
    IF i + w > Len(data) THEN ValResult("error", "struct.error", IntV(0), i)
    ELSE LET u == BigEndian(data, i, w)
             v == IF signed /\ u >= Pow256(w) \div 2 THEN u - Pow256(w) ELSE u
         IN  ValResult("ok", "", IntV(v), i + w)

read_uint32(data, i) == ReadInt(data, i, 4, FALSE)
read_uint16(data, i) == ReadInt(data, i, 2, FALSE)

\* read_gamma: the gamma layout of the primitive reader, over a span.
read_gamma(data, i) ==
    LET g == Gamma(data, i) IN
    IF g.st # "ok" THEN ValResult("error", "struct.error", IntV(0), i)
    ELSE ValResult("ok", "", IntV(g.val), i + g.n)

\* read_string: a gamma length, then that many bytes, decoded.
read_string(data, i) ==
    LET g == read_gamma(data, i) IN
    IF g.st # "ok" THEN ValResult("error", g.err, StrV(<<>>), i)
    ELSE IF g.i + g.val.v > Len(data)
    THEN ValResult("error", "struct.error", StrV(<<>>), i)
    ELSE LET bytes == SubSeq(data, g.i + 1, g.i + g.val.v) IN
         IF ~Utf8Ok(bytes) THEN ValResult("error", "UnicodeDecodeError", StrV(<<>>), i)
         ELSE ValResult("ok", "", StrV(Decode(bytes)), g.i + g.val.v)

\* READERS[field](self, data).
Readers(field, data, i) ==
    CASE field = I8 -> ReadInt(data, i, 1, TRUE)
      [] field = U8 -> ReadInt(data, i, 1, FALSE)
      [] field = I16 -> ReadInt(data, i, 2, TRUE)
      [] field = U16 -> ReadInt(data, i, 2, FALSE)
      [] field = I32 -> ReadInt(data, i, 4, TRUE)
      [] field = U32 -> ReadInt(data, i, 4, FALSE)
      [] field = I64 -> ReadInt(data, i, 8, TRUE)
      [] field = U64 -> ReadInt(data, i, 8, FALSE)
      [] field = STRINGID -> ReadInt(data, i, 2, FALSE)
      [] field = STRING_ -> read_string(data, i)
      [] OTHER -> ValResult("error", "KeyError", IntV(0), i)

-----------------------------------------------------------------------------
(* Record decoder: _read_item, read_field.                                 *)

RECURSIVE ReadItemLoop(_, _, _, _, _, _)
RECURSIVE ItemLoopField(_, _, _, _, _, _)
RECURSIVE ReadField(_, _, _, _, _, _, _)
RECURSIVE ReadListLoop(_, _, _, _, _, _, _, _)
RECURSIVE ListLoopItem(_, _, _, _, _, _, _, _)

\* The loop of _read_item over the fields of tables[key] not yet decoded,
\* with `result` as built so far.
ReadItemLoop(data, i, tbls, key, fields, result) ==
    IF fields = <<>> THEN ValResult("ok", "", MapV(result), i)
    ELSE ItemLoopField(data, tbls, key, fields, result,
                       ReadField(data, i, tbls, Head(fields)[1], Head(fields)[2],
                                 Head(fields)[3], key))

\* ... with r what read_field returned: result[field[2]] = res.
ItemLoopField(data, tbls, key, fields, result, r) ==
    IF r.st # "ok" THEN r
    ELSE ReadItemLoop(data, r.i, tbls, key, Tail(fields),
                      OrdPut(result, Head(fields)[3], r.val))

\* _read_item(data, tables, key).
ReadItem(data, i, tbls, key) ==
    IF key \notin DOMAIN tbls THEN ValResult("error", "KeyError", MapV(<<>>), i)
    ELSE ReadItemLoop(data, i, tbls, key, tbls[key], <<>>)

\* The for loop of read_field over a list of `count` values.
ReadListLoop(data, i, tbls, field, field_name, key, count, res) ==
    IF count <= 0 THEN ValResult("ok", "", ListV(res), i)
    ELSE ListLoopItem(data, tbls, field, field_name, key, count, res,
                      ReadField(data, i, tbls, field, FALSE, field_name, key))

\* ... with r what read_field returned: res.append(item).
ListLoopItem(data, tbls, field, field_name, key, count, res, r) ==
    IF r.st # "ok" THEN r
    ELSE ReadListLoop(data, r.i, tbls, field, field_name, key, count - 1,
                      Append(res, r.val))

\* The list branch of read_field, with g what read_gamma returned.
FieldList(data, tbls, field, field_name, key, g) ==
    IF g.st # "ok" THEN g
    ELSE ReadListLoop(data, g.i, tbls, field, field_name, key, g.val.v, <<>>)

\* read_field(data, tables, field, is_list, field_name, key).
ReadField(data, i, tbls, field, is_list, field_name, key) ==
    IF is_list /\ field # STRING_
    THEN FieldList(data, tbls, field, field_name, key, read_gamma(data, i))
    ELSE IF field = STRUCT
    THEN ReadItem(data, i, tbls, key \o Dot \o field_name)
    ELSE Readers(field, data, i)

-----------------------------------------------------------------------------
(* read_item and read_slxi: what they do to self.tables and self.items.    *)

unsupported == <<117, 110, 115, 117, 112, 112, 111, 114, 116, 101, 100>>
slxi == <<115, 108, 120, 105>>
\* {"unsupported": ""} and {"slxi": ""}
UnsupportedDict == Put(EmptyDict, unsupported, <<>>)
SlxiDict == Put(EmptyDict, slxi, <<>>)

\* self.items[tag][key] = item, on a defaultdict(dict).
StoreItem(its, tg, key, item) ==
    Put(its, tg, Put(IF tg \in DOMAIN its THEN its[tg] ELSE EmptyDict, key, item))

\* The tags whose records may carry bytes past the decoded fields.
JunkTagsGsdtOnly == {GSDT}
JunkTags == {GSDT, AIPL}

\* Outcome of a method on the store: st "ok" or "error", the message, and
\* self.tables and self.items as it leaves them.  left: bytes of the span
\* the decode did not consume; stored: the index string written, <<>> when
\* none was.
StoreResult(st, e, tbls, its, left, stored) ==
    [st |-> st, err |-> e, tables |-> tbls, items |-> its, left |-> left, stored |-> stored]

\* str(index), "0" for the index -1 of a blob.
TableIndex(idx) == IF idx = -1 THEN <<48>> ELSE Str(idx)

\* The schema branch of read_item, with r what _read_item returned: the
\* record is stored, then the span must be used up unless the tag is exempt.
ItemDecoded(selfTables, selfItems, tg, idx, data, r) ==
    IF r.st # "ok" THEN StoreResult("error", r.err, selfTables, selfItems, 0, <<>>)
    ELSE IF tg \notin JunkTags /\ Len(data) - r.i # 0
    THEN StoreResult("error", "Junk at end of chunk", selfTables,
                     StoreItem(selfItems, tg, TableIndex(idx), r.val.v),
                     Len(data) - r.i, TableIndex(idx))
    ELSE StoreResult("ok", "", selfTables,
                     StoreItem(selfItems, tg, TableIndex(idx), r.val.v),
                     Len(data) - r.i, TableIndex(idx))

\* read_item(tag, tables, index, data).
read_item(selfTables, selfItems, tg, tbls, idx, data) ==
    IF tbls # EmptyDict
    THEN ItemDecoded(selfTables, selfItems, tg, idx, data, ReadItem(data, 0, tbls, root))
    ELSE StoreResult("ok", "", Put(selfTables, tg, UnsupportedDict), selfItems, 0, <<>>)

-----------------------------------------------------------------------------
(* read_slxi.                                                              *)

K_name == <<110, 97, 109, 101>>
K_version == <<118, 101, 114, 115, 105, 111, 110>>
K_flags == <<102, 108, 97, 103, 115>>
K_extra_data == <<101, 120, 116, 114, 97, 95, 100, 97, 116, 97>>
K_chunks == <<99, 104, 117, 110, 107, 115>>
IgnorableUnknown ==
    <<105, 103, 110, 111, 114, 97, 98, 108, 101, 32, 117, 110, 107, 110, 111, 119, 110>>
IgnorableVersion ==
    <<105, 103, 110, 111, 114, 97, 98, 108, 101, 32, 118, 101, 114, 115, 105, 111, 110>>
ExtraDataPresent ==
    <<101, 120, 116, 114, 97, 32, 100, 97, 116, 97, 32, 112, 114, 101, 115, 101, 110, 116>>
ChunkIdListPresent ==
    <<99, 104, 117, 110, 107, 32, 73, 68, 32, 108, 105, 115, 116, 32, 112, 114, 101, 115,
      101, 110, 116>>

\* flags & bit != 0, for bit a power of two.
HasBit(flags, bit) == (flags \div bit) % 2 = 1

Min(a, b) == IF a < b THEN a ELSE b
\* data[0:n] of a span from offset i: as many of the n bytes as there are.
Slice(data, i, n) == SubSeq(data, i + 1, Min(i + n, Len(data)))
\* the offset after data = data[n:]
Skip(data, i, n) == Min(i + n, Len(data))

FlagNames(flags) ==
    (IF HasBit(flags, 1) THEN <<StrV(IgnorableUnknown)>> ELSE <<>>)
    \o (IF HasBit(flags, 2) THEN <<StrV(IgnorableVersion)>> ELSE <<>>)
    \o (IF HasBit(flags, 4) THEN <<StrV(ExtraDataPresent)>> ELSE <<>>)
    \o (IF HasBit(flags, 8) THEN <<StrV(ChunkIdListPresent)>> ELSE <<>>)

\* The loop that fills `chunks` with `count` more tags.
RECURSIVE ReadChunkIds(_, _, _, _)
ReadChunkIds(data, i, count, chunks) ==
    IF count <= 0 THEN ValResult("ok", "", ListV(chunks), i)
    ELSE LET bytes == Slice(data, i, 4) IN
         IF ~Utf8Ok(bytes) THEN ValResult("error", "UnicodeDecodeError", ListV(chunks), i)
         ELSE ReadChunkIds(data, Skip(data, i, 4), count - 1,
                           Append(chunks, StrV(Decode(bytes))))

\* One pass of the item loop of read_slxi, as far as it has come: the item
\* so far, the offset reached, the flags and name read, and the lengths
\* declared (-1 for a part the flags leave out).
SlxiItemResult(st, e, item, i, flags, name, extra_size, chunk_count) ==
    [st |-> st, err |-> e, item |-> item, i |-> i, flags |-> flags, name |-> name,
     extra_size |-> extra_size, chunk_count |-> chunk_count]
SlxiItemError(e) == SlxiItemResult("error", e, <<>>, 0, 0, <<>>, -1, -1)

\* flags, version, name, and the item with its three first keys.
SlxiItemHead(fl, ve, na) ==
    IF fl.st # "ok" THEN SlxiItemError(fl.err)
    ELSE IF ve.st # "ok" THEN SlxiItemError(ve.err)
    ELSE IF na.st # "ok" THEN SlxiItemError(na.err)
    ELSE SlxiItemResult("ok", "",
                        << <<K_name, na.val>>, <<K_version, ve.val>>,
                           <<K_flags, ListV(FlagNames(fl.val.v))>> >>,
                        na.i, fl.val.v, na.val.v, -1, -1)

\* item["extra_data"] of `size` declared bytes: data[0:size], as text for
\* the item named version_label and as a list of byte values otherwise.
ExtraData(data, i, size, name) ==
    IF name = version_label THEN StrV(Decode(Slice(data, i, size)))
    ELSE ListV([n \in 1..Len(Slice(data, i, size)) |-> IntV(Slice(data, i, size)[n])])

\* if (flags & 4) != 0, with es what read_uint32 returned for the size.
SlxiItemExtra(data, p, es) ==
    IF p.st # "ok" \/ ~HasBit(p.flags, 4) THEN p
    ELSE IF es.st # "ok" THEN SlxiItemError(es.err)
    ELSE IF p.name = version_label /\ ~Utf8Ok(Slice(data, es.i, es.val.v))
    THEN SlxiItemError("UnicodeDecodeError")
    ELSE [p EXCEPT !.item = OrdPut(p.item, K_extra_data,
                                   ExtraData(data, es.i, es.val.v, p.name)),
                   !.i = Skip(data, es.i, es.val.v),
                   !.extra_size = es.val.v]

\* item["chunks"] = chunks, with ch what the loop over the tags returned.
SlxiItemChunkIds(p, count, ch) ==
    IF ch.st # "ok" THEN SlxiItemError(ch.err)
    ELSE [p EXCEPT !.item = OrdPut(p.item, K_chunks, ch.val), !.i = ch.i,
                   !.chunk_count = count]

\* if (flags & 8) != 0, with cc what read_uint32 returned for the count.
SlxiItemChunks(data, p, cc) ==
    IF p.st # "ok" \/ ~HasBit(p.flags, 8) THEN p
    ELSE IF cc.st # "ok" THEN SlxiItemError(cc.err)
    ELSE SlxiItemChunkIds(p, cc.val.v, ReadChunkIds(data, cc.i, cc.val.v, <<>>))

SlxiItemFromExtra(data, p) == SlxiItemChunks(data, p, read_uint32(data, p.i))
SlxiItemFromHead(data, p) == SlxiItemFromExtra(data, SlxiItemExtra(data, p, read_uint32(data, p.i)))
SlxiItemFromName(data, fl, ve) == SlxiItemFromHead(data, SlxiItemHead(fl, ve, read_string(data, ve.i)))
SlxiItemFromFlags(data, fl) == SlxiItemFromName(data, fl, read_uint16(data, fl.i))
\* The body of the item loop from offset i.
ReadSlxiItem(data, i) == SlxiItemFromFlags(data, read_uint32(data, i))

\* Outcome of read_slxi: st "ok" or "error", the message, self.tables and
\* self.items as it leaves them, the items it stored in order with the
\* lengths they declared (decl), and item_count as read (-1 when not read).
SlxiResult(st, e, tbls, its, decl, item_count) ==
    [st |-> st, err |-> e, tables |-> tbls, items |-> its, decl |-> decl,
     item_count |-> item_count]

RECURSIVE SlxiLoop(_, _, _, _, _, _, _, _)
RECURSIVE SlxiLoopItem(_, _, _, _, _, _, _, _)

\* for idx in range(item_count), from idx on.
SlxiLoop(data, i, tg, idx, item_count, tbls, its, decl) ==
    IF idx >= item_count THEN SlxiResult("ok", "", tbls, its, decl, item_count)
    ELSE SlxiLoopItem(data, tg, idx, item_count, tbls, its, decl, ReadSlxiItem(data, i))

\* ... with r the item read: self.items[tag][str(idx)] = item.
SlxiLoopItem(data, tg, idx, item_count, tbls, its, decl, r) ==
    IF r.st # "ok" THEN SlxiResult("error", r.err, tbls, its, decl, item_count)
    ELSE SlxiLoop(data, r.i, tg, idx + 1, item_count, tbls,
                  StoreItem(its, tg, Str(idx), r.item),
                  Append(decl, [item |-> r.item, extra_size |-> r.extra_size,
                                chunk_count |-> r.chunk_count]))

\* The two gates of read_slxi: chunk_version > 0, chunk_flags != 0.
VersionGate(chunk_version) == chunk_version > 0
FlagsGateOff(chunk_flags) == FALSE
FlagsGate(chunk_flags) == chunk_flags # 0

\* read_slxi after self.tables[tag] = {"unsupported": ""} (t1), with cv, cf
\* and ic what read_uint32 returned for the version, the flags and the count.
SlxiGated(selfItems, tg, data, t1, cv, cf, ic) ==
    IF cv.st # "ok" THEN SlxiResult("error", cv.err, t1, selfItems, <<>>, -1)
    ELSE IF VersionGate(cv.val.v) THEN SlxiResult("ok", "", t1, selfItems, <<>>, -1)
    ELSE IF cf.st # "ok" THEN SlxiResult("error", cf.err, t1, selfItems, <<>>, -1)
    ELSE IF FlagsGate(cf.val.v) THEN SlxiResult("ok", "", t1, selfItems, <<>>, -1)
    ELSE IF ic.st # "ok"
    THEN SlxiResult("error", ic.err, Put(t1, tg, SlxiDict), selfItems, <<>>, -1)
    ELSE SlxiLoop(data, ic.i, tg, 0, ic.val.v, Put(t1, tg, SlxiDict), selfItems, <<>>)

\* read_slxi(tag, data).  The three words are at fixed offsets.
read_slxi(selfTables, selfItems, tg, data) ==
    SlxiGated(selfItems, tg, data, Put(selfTables, tg, UnsupportedDict),
              read_uint32(data, 0), read_uint32(data, 4), read_uint32(data, 8))

-----------------------------------------------------------------------------
(* Inputs.                                                                 *)

\* Every sequence over S of length up to n.
RECURSIVE SeqsUpTo(_, _)
SeqsUpTo(S, n) ==
    IF n = 0 THEN {<<>>}
    ELSE LET T == SeqsUpTo(S, n - 1) IN T \cup {Append(t, x) : t \in T, x \in S}

\* Every sequence of S and every sequence one of them starts with.
Prefixes(S) == UNION {{SubSeq(s, 1, n) : n \in 0..Len(s)} : s \in S}

\* The well-formed embedded schemas of at most n bytes over the field
\* descriptors `leaf` (no STRUCT) and `struct` (STRUCT), as <<h, s>>: h the
\* descriptors of the root list, s the nested lists of its STRUCT fields in
\* declaration order, each laid out the same way.  The bytes of <<h, s>> are
\* h, the terminating zero, then s.
SchemaBytes(p) == p[1] \o <<0>> \o p[2]
RECURSIVE SchemaPairs(_, _, _)
SchemaPairs(n, leaf, struct) ==
    IF n < 1 THEN {}
    ELSE {<<<<>>, <<>>>>}
         \cup UNION {{<<h \o p[1], p[2]>> : p \in SchemaPairs(n - Len(h), leaf, struct)} :
                     h \in leaf}
         \cup UNION {UNION {{<<h \o p[1], SchemaBytes(q) \o p[2]>> :
                               p \in SchemaPairs(n - Len(h) - Len(SchemaBytes(q)),
                                                 leaf, struct)} :
                            q \in SchemaPairs(n - Len(h) - 1, leaf, struct)} :
                     h \in struct}
WellFormedSchemas(n, leaf, struct) == {SchemaBytes(p) : p \in SchemaPairs(n, leaf, struct)}

-----------------------------------------------------------------------------
(* Savegame.read: the chunk loop.                                          *)

\* What an operation is seen to do, for the properties below.
\*   declared   gamma value read as the outer size of an embedded schema
\*   size_read  the size read_all_tables returned
\*   advanced   bytes the cursor advanced inside read_all_tables
\*   readArg    the length passed to reader.read for a record's payload
\*   idxValue   the gamma value read as a record's index
\*   payload    the bytes handed to read_item or read_slxi
\*   stored     the index string read_item stored under, <<>> when none
\*   left       bytes of the payload the decode left over
\* (-1: does not apply)
LastNone ==
    [op |-> "none", declared |-> -1, size_read |-> -1, advanced |-> -1, readArg |-> 0,
     idxValue |-> -1, payload |-> <<>>, stored |-> <<>>, left |-> 0]

\* The state as an operation finds it; n counts the bytes it consumes and
\* eof tells that it met the end of the stream.
Cur(op) ==
    [pc |-> pc, err |-> err, n |-> 0, eof |-> FALSE, tables |-> tables, items |-> items,
     tag |-> tag, type |-> type, chunkTables |-> chunkTables, index |-> index,
     recNo |-> recNo, noSchema |-> noSchema, last |-> [LastNone EXCEPT !.op = op]]

\* An exception leaves read.
Raise(o, e) == [o EXCEPT !.pc = "failed", !.err = e]
\* The reader raises ValidationException at the end of the stream.
RaiseEof(o, inp) ==
    [o EXCEPT !.pc = "failed", !.err = "Unexpected end of file", !.eof = TRUE,
              !.n = Len(inp)]

\* size = reader.gamma()[0] - 1
DeclaredSizeRaw(g) == g
DeclaredSize(g) == g - 1

\* read_slxi or read_item has returned r for the blob of a chunk of type 0.
BlobDone(o, r) ==
    [o EXCEPT !.tables = r.tables, !.items = r.items,
              !.pc = IF r.st = "ok" THEN "tag" ELSE "failed", !.err = r.err]

\* if tag == "SLXI": read_slxi, else read_item with no tables and index -1.
BlobData(o, data) ==
    IF o.tag = SLXI
    THEN BlobDone(o, read_slxi(o.tables, o.items, o.tag, data))
    ELSE BlobDone([o EXCEPT !.noSchema = o.noSchema \cup {o.tag}],
                  read_item(o.tables, o.items, o.tag, EmptyDict, -1, data))

\* The size of a blob: the header byte's high nibble over a 24-bit length.
BlobSize(inp, m) == (m \div 16) * 16777216 + BigEndian(inp, 5, 3)

\* type == 0: the chunk is one blob of `size` bytes.
BlobChunk(inp, o, m) ==
    IF Len(inp) < 8 THEN RaiseEof(o, inp)
    ELSE IF 8 + BlobSize(inp, m) > Len(inp) THEN RaiseEof(o, inp)
    ELSE BlobData([o EXCEPT !.n = 8 + BlobSize(inp, m),
                            !.last.payload = SubSeq(inp, 9, 8 + BlobSize(inp, m)),
                            !.last.readArg = BlobSize(inp, m)],
                  SubSeq(inp, 9, 8 + BlobSize(inp, m)))

\* type >= 3, with `declared` the gamma value read and r what
\* read_all_tables returned from offset `from`.
SchemaRead(inp, o, declared, from, r) ==
    IF r.st = "eof" THEN RaiseEof(o, inp)
    ELSE IF r.st # "ok" THEN [Raise(o, r.err) EXCEPT !.n = r.i]
    ELSE IF r.size # DeclaredSize(declared)
    THEN [Raise(o, "Table header size mismatch.") EXCEPT
              !.n = r.i, !.last.declared = declared, !.last.size_read = r.size,
              !.last.advanced = r.i - from]
    ELSE [o EXCEPT !.n = r.i, !.last.declared = declared, !.last.size_read = r.size,
                   !.last.advanced = r.i - from,
                   !.tables = Put(o.tables, o.tag, r.tables),
                   !.chunkTables = r.tables,
                   !.index = -1, !.recNo = 0, !.pc = "records"]

\* 1 <= type <= 4: the schema, when the chunk embeds one, up to the record loop.
TableChunk(inp, o) ==
    IF o.type >= 3
    THEN IF Gamma(inp, 5).st # "ok" THEN RaiseEof(o, inp)
         ELSE SchemaRead(inp, o, Gamma(inp, 5).val, 5 + Gamma(inp, 5).n,
                         ReadAllTables(inp, 5 + Gamma(inp, 5).n))
    ELSE [o EXCEPT !.chunkTables = EmptyDict, !.index = -1, !.recNo = 0,
                   !.noSchema = o.noSchema \cup {o.tag}, !.pc = "records"]

\* One pass of the outer loop of read, from the tag to the record loop.
ChunkOutcome(inp) ==
    LET bytes == Slice(inp, 0, 4)
        o0 == Cur("chunk")
    IN
    IF Len(bytes) = 0 THEN [o0 EXCEPT !.pc = "tail", !.eof = TRUE]
    ELSE IF bytes = <<0, 0, 0, 0>> THEN [o0 EXCEPT !.pc = "tail", !.n = 4]
    ELSE IF Len(bytes) # 4
    THEN [Raise(o0, "Invalid savegame.") EXCEPT !.n = Len(bytes), !.eof = TRUE]
    ELSE IF ~Utf8Ok(bytes) THEN [Raise(o0, "UnicodeDecodeError") EXCEPT !.n = 4]
    ELSE
    LET o1 == [o0 EXCEPT !.tag = Decode(bytes), !.n = 4] IN
    IF Len(inp) < 5 THEN RaiseEof(o1, inp)
    ELSE
    LET m == inp[5]
        o2 == [o1 EXCEPT !.type = m % 16, !.n = 5]
    IN  IF o2.type = 0 THEN BlobChunk(inp, o2, m)
        ELSE IF o2.type \in 1..4 THEN TableChunk(inp, o2)
        ELSE Raise(o2, "Unknown chunk type.")

\* The index of the next record: read from the stream for a sparse chunk,
\* counted for a dense one.
NextIndexCounted(ty, idx, read) == idx + 1
NextIndex(ty, idx, read) == IF ty = 2 \/ ty = 4 THEN read ELSE idx + 1

\* read_item has returned r for the payload `data` of a record.
RecordDone(o, data, ended, r) ==
    [o EXCEPT !.n = o.n + Len(data), !.eof = ended,
              !.tables = r.tables, !.items = r.items,
              !.last.payload = data, !.last.stored = r.stored, !.last.left = r.left,
              !.pc = IF r.st = "ok" THEN "records" ELSE "failed", !.err = r.err]

\* if size != 0: self.read_item(tag, tables, index, reader.read(size)), with
\* o.n the offset of the payload.  reader.read of a negative length is not in
\* the reader's contract: `neg` chooses between the reader raising and the
\* reader returning what is left of the stream, as a file object does.
RecordPayload(inp, o, size, neg) ==
    IF size = 0 THEN o
    ELSE IF size < 0 /\ neg = "raise" THEN Raise(o, "Unexpected end of file")
    ELSE IF size < 0
    THEN RecordDone(o, SubSeq(inp, o.n + 1, Len(inp)), TRUE,
                    read_item(o.tables, o.items, o.tag, o.chunkTables, o.index,
                              SubSeq(inp, o.n + 1, Len(inp))))
    ELSE IF o.n + size > Len(inp) THEN RaiseEof(o, inp)
    ELSE RecordDone(o, SubSeq(inp, o.n + 1, o.n + size), FALSE,
                    read_item(o.tables, o.items, o.tag, o.chunkTables, o.index,
                              SubSeq(inp, o.n + 1, o.n + size)))

\* One pass of the record loop.
RecordOutcome(inp, neg) ==
    LET o0 == Cur("record")
        g == Gamma(inp, 0)
        sparse == o0.type = 2 \/ o0.type = 4
        gi == Gamma(inp, g.n)
    IN
    IF g.st # "ok" THEN RaiseEof(o0, inp)
    ELSE IF g.val - 1 < 0 THEN [o0 EXCEPT !.n = g.n, !.pc = "tag", !.last.op = "end"]
    ELSE IF sparse /\ gi.st # "ok" THEN RaiseEof(o0, inp)
    ELSE RecordPayload(inp,
                       [o0 EXCEPT !.index = NextIndex(o0.type, o0.index, gi.val),
                                  !.recNo = o0.recNo + 1,
                                  !.n = IF sparse THEN g.n + gi.n ELSE g.n,
                                  !.last.idxValue = IF sparse THEN gi.val ELSE -1,
                                  !.last.readArg =
                                      IF sparse THEN g.val - 1 - gi.n ELSE g.val - 1],
                       IF sparse THEN g.val - 1 - gi.n ELSE g.val - 1,
                       neg)

\* A _check_tail that lets a trailing byte pass.
TailOutcomeLenient(inp) == [Cur("tail") EXCEPT !.pc = "done", !.n = Len(inp)]
\* _check_tail(reader, "file"): reader.uint8() raising ValidationException
\* is the stream having ended; a byte read is junk.
TailOutcome(inp) ==
    LET o0 == Cur("tail") IN
    IF Len(inp) < 1 THEN [o0 EXCEPT !.pc = "done", !.eof = TRUE]
    ELSE [Raise(o0, "Junk at the end of file.") EXCEPT !.n = 1]

\* The operation's outcome becomes the state.
Becomes(o, inp) ==
    /\ pos + Len(inp) <= MaxStream
    /\ atEof => inp = <<>>
    /\ o.n = Len(inp)
    /\ pc' = o.pc
    /\ err' = o.err
    /\ pos' = pos + o.n
    /\ atEof' = (atEof \/ o.eof)
    /\ tables' = o.tables
    /\ items' = o.items
    /\ tag' = o.tag
    /\ type' = o.type
    /\ chunkTables' = o.chunkTables
    /\ index' = o.index
    /\ recNo' = o.recNo
    /\ noSchema' = o.noSchema
    /\ last' = o.last
    /\ UNCHANGED <<savegame_version, arg>>

-----------------------------------------------------------------------------
(* The streams read is followed over.                                      *)

OTTN == <<79, 84, 84, 78>>
OTTX == <<79, 84, 84, 88>>
\* The magics of compression.UNCOMPRESS that the model draws.
UNCOMPRESS == {OTTN, OTTX}
\* The file's first eight bytes: a magic, the version, two more bytes.
FileHeads == {m \o <<1, 39, 0, 0>> : m \in {OTTN, OTTX, <<79, 84, 84, 63>>}} \cup {OTTN}

Tags == {SLXI, GSDT, AIPL, PATS}
BE24(n) == <<(n \div 65536) % 256, (n \div 256) % 256, n % 256>>
\* Payload bytes: small values, which are also list lengths.
PayloadBytes == {1, 2}
Payloads == SeqsUpTo(PayloadBytes, MaxPayload)

\* The outer size before a schema of n bytes is the gamma of n + 1; also
\* drawn: one less, one more, and n + 1 spread over two bytes.
SizeEncs(n) == {<<n + 1>>, <<n>>, <<n + 2>>, <<128, n + 1>>}
\* Field descriptors a stream's schemas are made of: U8 "a", U8 "b", a list
\* of U8 "a", and STRUCT "b".
StreamLeafHdrs == {<<U8, 1, 97>>, <<U8, 1, 98>>, <<U8 + FIELD_TYPE_HAS_LENGTH_FIELD, 1, 97>>}
StreamStructHdrs == {<<STRUCT, 1, 98>>}
\* Schemas that are not well formed: a type nibble that is no FieldType,
\* a key that is not UTF-8.
IllFormedSchemas == {<<15, 0>>, <<U8, 1, 128>>}
StreamSchemas ==
    WellFormedSchemas(MaxStreamSchema, StreamLeafHdrs, StreamStructHdrs)
    \cup IllFormedSchemas

\* What may follow a tag: the header byte and, up to the record loop, what
\* the chunk type makes read consume; and every such input cut short.
ChunkBodies ==
    {<<1>>, <<2>>, <<5>>, <<16, 0, 0, 0>>}
    \cup UNION {{<<m>> \o g \o sch : m \in {3, 4}, g \in SizeEncs(Len(sch))} :
                sch \in StreamSchemas}
    \cup {<<0>> \o BE24(Len(d)) \o d : d \in {<<>>, <<1>>}}
\* The payloads of SLXI blobs a stream carries: gated by version, gated by
\* flags, and not gated with no item.
StreamSlxiPayloads ==
    {<<0, 0, 0, 1>>, <<1, 0, 0, 0, 7>>, <<0, 0, 0, 0, 0, 0, 0, 1>>, <<0, 0, 0, 0, 0, 0, 1, 0>>,
     <<0, 0, 0, 0, 0, 0, 0, 0, 0, 0, 0, 0>>}
ChunkInputs ==
    {<<>>, <<0, 0, 0, 0>>, <<80>>, <<255, 65, 66, 67>>}
    \cup Prefixes({t \o b : t \in Tags, b \in ChunkBodies})
    \cup Prefixes({SLXI \o <<0>> \o BE24(Len(d)) \o d : d \in StreamSlxiPayloads})

\* A record: its size, its index in a sparse chunk, its payload.
RecordSizes == {<<0>>, <<1>>, <<2>>, <<3>>, <<4>>, <<128, 2>>}
RecordIndexes == {<<0>>, <<1>>, <<5>>, <<128, 3>>}
DenseInputs == Prefixes({g \o d : g \in RecordSizes, d \in Payloads})
SparseInputs == Prefixes({g \o ix \o d : g \in RecordSizes, ix \in RecordIndexes, d \in Payloads})

-----------------------------------------------------------------------------
(* Savegame.read as a state machine.                                       *)

Init ==
    /\ pc = "start"
    /\ err = ""
    /\ pos = 0
    /\ atEof = FALSE
    /\ tables = EmptyDict
    /\ items = EmptyDict
    /\ tag = <<>>
    /\ type = -1
    /\ chunkTables = EmptyDict
    /\ index = -1
    /\ recNo = 0
    /\ noSchema = {}
    /\ last = LastNone
    /\ savegame_version = -1
    /\ arg = <<>>

\* read, up to the chunk loop: the file's head, then the decompressor.
Open ==
    /\ pc = "start"
    /\ \E head \in FileHeads :
        /\ IF Len(head) < 8
           THEN pc' = "failed" /\ err' = "Unexpected end of file"
                /\ UNCHANGED savegame_version
           ELSE /\ savegame_version' = BigEndian(head, 4, 2)
                /\ IF SubSeq(head, 1, 4) \in UNCOMPRESS
                   THEN pc' = "tag" /\ UNCHANGED err
                   ELSE pc' = "failed" /\ err' = "Unknown savegame compression"
    /\ last' = [LastNone EXCEPT !.op = "open"]
    /\ UNCHANGED <<pos, atEof, tables, items, tag, type, chunkTables, index, recNo,
                   noSchema, arg>>

ReadChunk ==
    /\ pc = "tag"
    /\ \E inp \in ChunkInputs : Becomes(ChunkOutcome(inp), inp)

ReadRecord ==
    /\ pc = "records"
    /\ \E inp \in (IF type = 2 \/ type = 4 THEN SparseInputs ELSE DenseInputs) :
         \E neg \in {"raise", "rest"} : Becomes(RecordOutcome(inp, neg), inp)

CheckTail ==
    /\ pc = "tail"
    /\ \E inp \in {<<>>, <<0>>, <<7>>} : Becomes(TailOutcome(inp), inp)

Next == Open \/ ReadChunk \/ ReadRecord \/ CheckTail

Spec == Init /\ [][Next]_vars

-----------------------------------------------------------------------------
(* read_all_tables applied to an embedded schema on its own.               *)

\* A gamma-encoded key length followed by the key: "", "a", "b", and "a"
\* with its length spread over two bytes.
KeyEncs == {<<0>>, <<1, 97>>, <<1, 98>>, <<128, 1, 97>>}
\* Field descriptors: U8, list of U8, and STRUCT.
LeafHdrs == {<<t>> \o k : t \in {U8, U8 + FIELD_TYPE_HAS_LENGTH_FIELD}, k \in KeyEncs}
StructHdrs == {<<STRUCT>> \o k : k \in KeyEncs}

\* The argument: a well-formed schema, and the bytes the stream goes on with.
TableArgs ==
    {[schema |-> sch, rest |-> r] :
        sch \in WellFormedSchemas(MaxSchemaLen, LeafHdrs, StructHdrs),
        r \in {<<>>, <<0>>, <<U8, 1, 97, 0>>}}

Fresh ==
    /\ err = ""
    /\ pos = 0
    /\ atEof = FALSE
    /\ tag = <<>>
    /\ type = -1
    /\ chunkTables = EmptyDict
    /\ index = -1
    /\ recNo = 0
    /\ noSchema = {}
    /\ last = LastNone
    /\ savegame_version = -1

InitTables ==
    /\ pc = "call"
    /\ arg \in TableArgs
    /\ tables = EmptyDict
    /\ items = EmptyDict
    /\ Fresh

\* tables, size = self.read_all_tables(tag, reader), with r what it returned.
TablesReturned(r) ==
    /\ pc' = IF r.st = "ok" THEN "returned" ELSE "failed"
    /\ err' = r.err
    /\ pos' = pos + r.i
    /\ chunkTables' = r.tables
    /\ last' = [LastNone EXCEPT !.op = "tables", !.size_read = r.size, !.advanced = r.i]
    /\ UNCHANGED <<atEof, tables, items, tag, type, index, recNo, noSchema,
                   savegame_version, arg>>

CallReadAllTables ==
    /\ pc = "call"
    /\ TablesReturned(ReadAllTables(arg.schema \o arg.rest, 0))

NextTables == CallReadAllTables

SpecTables == InitTables /\ [][NextTables]_vars

-----------------------------------------------------------------------------
(* read_slxi applied to a payload on its own.                              *)

BE32(n) == <<(n \div 16777216) % 256, (n \div 65536) % 256, (n \div 256) % 256, n % 256>>
BE16(n) == <<(n \div 256) % 256, n % 256>>

\* An item's name, extra data and chunk id list, as they are laid out.
SlxiNames == {<<1, 97>>, <<13>> \o version_label}
SlxiExtras == {BE32(2) \o <<65, 66>>, BE32(2) \o <<65, 128>>}
SlxiChunkLists == {BE32(0), BE32(1) \o PATS}
SlxiItemEncs ==
    {BE32(f) \o BE16(258) \o <<1, 97>> : f \in {0, 3}}
    \cup {BE32(4) \o BE16(1) \o nm \o ex : nm \in SlxiNames, ex \in SlxiExtras}
    \cup {BE32(8) \o BE16(1) \o <<1, 97>> \o cl : cl \in SlxiChunkLists}
    \cup {BE32(12) \o BE16(1) \o <<1, 97>> \o BE32(2) \o <<65, 66>> \o BE32(1) \o PATS}

\* k items, one after the other.
RECURSIVE SlxiBodies(_)
SlxiBodies(k) ==
    IF k = 0 THEN {<<>>} ELSE {e \o b : e \in SlxiItemEncs, b \in SlxiBodies(k - 1)}

\* Payloads: not gated, with the items they count; the same cut short; and
\* gated by the version or by the flags, whatever follows.
SlxiPayloads ==
    Prefixes(UNION {{BE32(0) \o BE32(0) \o BE32(k) \o b : b \in SlxiBodies(k)} :
                    k \in 0..MaxSlxiItems})
    \cup {BE32(0) \o BE32(0) \o BE32(0) \o <<9>>}
    \cup {v \o r : v \in {BE32(1), <<1, 0, 0, 0>>, BE32(0) \o BE32(1), BE32(0) \o <<0, 1, 0, 0>>},
                   r \in {<<>>, <<0, 0>>, BE32(0) \o BE32(0) \o BE32(1) \o BE32(0) \o BE16(1) \o <<1, 97>>}}

\* The store before the call: empty, or as an earlier SLXI chunk of two
\* items left it.
EarlierSlxi ==
    read_slxi(EmptyDict, EmptyDict, SLXI,
              BE32(0) \o BE32(0) \o BE32(2) \o BE32(0) \o BE16(7) \o <<1, 98>>
              \o BE32(0) \o BE16(7) \o <<1, 98>>)
SlxiArgs ==
    {[payload |-> d, tables0 |-> st.tables, items0 |-> st.items] :
        d \in SlxiPayloads,
        st \in {[tables |-> EmptyDict, items |-> EmptyDict],
                [tables |-> EarlierSlxi.tables, items |-> EarlierSlxi.items]}}

InitSlxi ==
    /\ pc = "call"
    /\ arg \in SlxiArgs
    /\ tables = arg.tables0
    /\ items = arg.items0
    /\ Fresh

\* self.read_slxi(tag, data), with r what it did.
SlxiReturned(r) ==
    /\ pc' = IF r.st = "ok" THEN "returned" ELSE "failed"
    /\ err' = r.err
    /\ tables' = r.tables
    /\ items' = r.items
    /\ last' = r
    /\ tag' = SLXI
    /\ UNCHANGED <<pos, atEof, type, chunkTables, index, recNo, noSchema,
                   savegame_version, arg>>

CallReadSlxi ==
    /\ pc = "call"
    /\ SlxiReturned(read_slxi(tables, items, SLXI, arg.payload))

NextSlxi == CallReadSlxi

SpecSlxi == InitSlxi /\ [][NextSlxi]_vars

-----------------------------------------------------------------------------
(* Properties.                                                             *)

FieldNames(fields) == [n \in 1..Len(fields) |-> fields[n][3]]
\* d[k] of an insertion-ordered dict that holds k.
OrdGet(d, k) == d[CHOOSE n \in 1..Len(d) : d[n][1] = k][2]
OrdHas(d, k) == \E n \in 1..Len(d) : d[n][1] = k

\* C1: for every well-formed embedded schema, read_all_tables returns and
\* its size is the number of bytes of the schema, which is also how far the
\* cursor advanced, whatever bytes follow the schema in the stream.
C1_SizeIsBytesConsumed ==
    pc # "call" =>
        /\ pc = "returned"
        /\ last.size_read = Len(arg.schema)
        /\ last.advanced = Len(arg.schema)

\* A schema with nested lists and a key length spread over two bytes has
\* been parsed.
C1_Witness ==
    /\ pc = "returned"
    /\ Cardinality(DOMAIN chunkTables) >= 3
    /\ \E k \in 1..Len(arg.schema) : arg.schema[k] = 128
    /\ arg.rest # <<>>

\* C2: when read_all_tables has returned for a chunk of type 3 or 4, read
\* fails with "Table header size mismatch." exactly when the size returned
\* differs from the gamma-decoded outer size minus 1, and then registers
\* nothing and decodes no record; when they agree the registry is under the
\* tag and no record of the chunk has been read yet.
C2_SizeMismatch ==
    /\ [][(pc = "tag" /\ last'.op = "chunk" /\ last'.size_read >= 0) =>
            /\ type' \in {3, 4}
            /\ items' = items
            /\ IF last'.size_read # last'.declared - 1
               THEN /\ pc' = "failed"
                    /\ err' = "Table header size mismatch."
                    /\ tables' = tables
               ELSE /\ pc' = "records"
                    /\ err' = ""
                    /\ recNo' = 0
                    /\ tables' = Put(tables, tag', chunkTables')
                    /\ root \in DOMAIN chunkTables']_vars
    /\ [](err = "Table header size mismatch." =>
            last.size_read >= 0 /\ last.size_read # last.declared - 1)

\* A chunk whose nested schema was parsed to the end and whose outer size
\* does not match has failed.
C2_Witness ==
    /\ err = "Table header size mismatch."
    /\ last.size_read = 8
    /\ last.declared = 8

\* C3: every record of a collection chunk gets the index of the index law:
\* in a sparse chunk (type 2 or 4) the gamma value read for it, in a dense
\* chunk (type 1 or 3) its position in the chunk counted from 0; a record
\* that is stored is stored under that index as a string.
C3_IndexLaw ==
    [][(pc = "records" /\ last'.op = "record" /\ recNo' = recNo + 1) =>
          /\ index' = IF type \in {2, 4} THEN last'.idxValue ELSE recNo
          /\ last'.stored # <<>> =>
                /\ last'.stored = Str(index')
                /\ tag \in DOMAIN items'
                /\ last'.stored \in DOMAIN items'[tag]]_vars

\* The first record of a sparse chunk has been stored under index 5.
C3_Witness ==
    /\ pc = "records"
    /\ type = 4
    /\ recNo = 1
    /\ last.idxValue = 5
    /\ last.stored = <<53>>
    /\ <<53>> \in DOMAIN items[tag]

\* C4: a record decoded under a schema of N fields has exactly N keys, the
\* field names in declaration order.
C4_KeysMatchSchema ==
    (last.op = "record" /\ last.stored # <<>>) =>
        OrdKeys(items[tag][last.stored]) = FieldNames(chunkTables[root])

\* C5: a record decoded under a registry makes read_item fail with "Junk
\* at end of chunk" exactly when bytes of its span are left over and the
\* tag is neither GSDT nor AIPL; for those two tags the record is kept and
\* read goes on.
C5_JunkAtEndOfChunk ==
    /\ (last.op = "record" /\ last.stored # <<>>) =>
          /\ (err = "Junk at end of chunk") <=> (last.left > 0 /\ tag \notin {GSDT, AIPL})
          /\ err = "" => pc = "records"
          /\ tag \in {GSDT, AIPL} =>
                /\ pc = "records"
                /\ tag \in DOMAIN items
                /\ last.stored \in DOMAIN items[tag]
    /\ err = "Junk at end of chunk" => (last.op = "record" /\ last.stored # <<>>)

\* A record of an AIPL chunk with bytes left over has been kept.
C5_Witness ==
    /\ tag = AIPL
    /\ last.op = "record"
    /\ last.stored # <<>>
    /\ last.left > 0
    /\ pc = "records"

\* C6: once the terminal tag (or the end of the stream) has been read no
\* chunk is dispatched; read completes when nothing follows and fails with
\* "Junk at the end of file." when a byte does.
C6_TerminalDetection ==
    /\ [][(pc = "tag" /\ pc' = "tail") => (tables' = tables /\ items' = items)]_vars
    /\ [][pc = "tail" =>
            /\ tables' = tables
            /\ items' = items
            /\ IF pos' = pos
               THEN pc' = "done" /\ err' = ""
               ELSE pc' = "failed" /\ err' = "Junk at the end of file."]_vars
    /\ [][pc \notin {"done", "failed"}]_vars

\* A byte after the terminal tag that followed a chunk has failed read.
C6_Witness ==
    /\ pc = "failed"
    /\ err = "Junk at the end of file."
    /\ tables # EmptyDict

\* C7: a payload whose version word is nonzero, or whose version is zero
\* and whose flags word is nonzero, leaves the unsupported placeholder under
\* the tag and the item store as it was, whatever bytes follow; a payload
\* with both words zero is marked parsed, and when read_slxi returns it has
\* stored item_count items, the i-th under str(i), and no other.
C7_SlxiGating ==
    LET P == arg.payload
        zero == <<0, 0, 0, 0>>
        gated == \/ Len(P) >= 4 /\ SubSeq(P, 1, 4) # zero
                 \/ Len(P) >= 8 /\ SubSeq(P, 1, 4) = zero /\ SubSeq(P, 5, 8) # zero
        open == Len(P) >= 12 /\ SubSeq(P, 1, 8) = zero \o zero
        item_count == BigEndian(P, 8, 4)
        before == IF SLXI \in DOMAIN arg.items0 THEN arg.items0[SLXI] ELSE EmptyDict
        after == IF SLXI \in DOMAIN items THEN items[SLXI] ELSE EmptyDict
        written == {Str(n) : n \in 0..(Len(last.decl) - 1)}
    IN  pc # "call" =>
          /\ gated => /\ pc = "returned"
                      /\ tables = Put(arg.tables0, SLXI, UnsupportedDict)
                      /\ items = arg.items0
          /\ open => /\ tables = Put(arg.tables0, SLXI, SlxiDict)
                     /\ Len(last.decl) <= item_count
                     /\ pc = "returned" => Len(last.decl) = item_count
                     /\ DOMAIN after = DOMAIN before \cup written
                     /\ \A n \in 1..Len(last.decl) : after[Str(n - 1)] = last.decl[n].item
                     /\ \A k \in DOMAIN before \ written : after[k] = before[k]

\* A payload that counts two items has had both stored, over a store that
\* held none.
C7_Witness ==
    /\ pc = "returned"
    /\ arg.items0 = EmptyDict
    /\ Len(arg.payload) >= 12
    /\ SubSeq(arg.payload, 1, 12) = <<0, 0, 0, 0, 0, 0, 0, 0, 0, 0, 0, 2>>
    /\ SLXI \in DOMAIN items
    /\ DOMAIN items[SLXI] = {<<48>>, <<49>>}

\* C8: when read has completed, every tag dispatched without an embedded
\* schema has the unsupported placeholder and no item.
C8_NoSchemaIsUnsupported ==
    pc = "done" =>
        \A t \in noSchema :
            /\ t \in DOMAIN tables
            /\ tables[t] = UnsupportedDict
            /\ t \notin DOMAIN items

\* C9: the length passed to reader.read for a record's payload is never
\* negative.
C9_ReadLengthNotNegative == last.readArg >= 0

\* C10: every item read_slxi stores holds as many extra data bytes as it
\* declared, and as many chunk ids as it declared, each of 4 bytes.
C10_SlxiLengths ==
    pc # "call" =>
        \A n \in 1..Len(last.decl) :
            LET d == last.decl[n] IN
            /\ d.extra_size >= 0 => Len(OrdGet(d.item, K_extra_data).v) = d.extra_size
            /\ d.chunk_count >= 0 =>
                  /\ Len(OrdGet(d.item, K_chunks).v) = d.chunk_count
                  /\ \A c \in 1..d.chunk_count : Len(OrdGet(d.item, K_chunks).v[c].v) = 4

====
